---------------------------- MODULE Spec2Model ----------------------------
(***************************************************************************)
(* A model of the Label widget of PygameUI (src/pygameui/widgets/label.py). *)
(*                                                                         *)
(* One Label instance is modelled.  Its fields are the variables whose     *)
(* names start with an underscore, `hovered' is the flag of the hover      *)
(* mixin, `calls' and `forwarded' record what the most recent operation    *)
(* sent to pygame and to the base Widget, and the remaining variables are  *)
(* history variables (the most recent operation, its arguments and the     *)
(* values it started from).                                                *)
(***************************************************************************)
EXTENDS Integers, Sequences, FiniteSets, TLC

VARIABLES
    _text, _wraplength, _underline, _font, _image,
    _border_radius, _borderwidth,
    _foreground, _background, _hovercolor, _hoverbackground, _bordercolor,
    _state,
    hovered,        \* HoverableMixin's flag
    calls,          \* pygame calls issued by the most recent operation
    forwarded,      \* names the most recent operation passed on to Widget
    op,             \* history: name of the most recent operation
    args,           \* history: its arguments
    hov0,           \* history: the hover flag when it was invoked
    pre,            \* history: _state when it was invoked
    forced,         \* history: the state forced since the last update, if any
    written,        \* history: the text most recently written
    writer          \* history: the operation that wrote it

style == <<_text, _wraplength, _underline, _font, _image, _border_radius,
           _borderwidth, _foreground, _background, _hovercolor,
           _hoverbackground, _bordercolor>>
fields == <<_text, _wraplength, _underline, _font, _image, _border_radius,
            _borderwidth, _foreground, _background, _hovercolor,
            _hoverbackground, _bordercolor, _state>>
history == <<op, args, hov0, pre, forced, written, writer>>
vars == <<fields, hovered, calls, forwarded, history>>

---------------------------------------------------------------------------
(* Bounds of the model. *)

\* override colors are 0..MaxColor
MaxColor == 1
\* override border widths are 0..MaxBorderWidth
MaxBorderWidth == 1
\* override border radii are 0..MaxRadius
MaxRadius == 1
\* elapsed times passed to update are 0..MaxDelta
MaxDelta == 1

---------------------------------------------------------------------------
(* Values. *)

None == "None"
NoForce == "NoForce"
Unpainted == "Unpainted"

Colors == 0 .. MaxColor
BorderWidths == 0 .. MaxBorderWidth
Radii == 0 .. MaxRadius
Deltas == 0 .. MaxDelta
States == {"normal", "hovered", "disabled"}
Texts == {"", "Hi", "Bye"}
Images == {None, "icon"}
Events == {"motion_inside", "motion_outside", "keydown"}

(* pygame.Color(name): a color name converted to a color value. *)
pygame_Color(name) ==
    CASE name = "black"  -> 100
      [] name = "white"  -> 101
      [] name = "gray"   -> 102
      [] name = "navy"   -> 103
      [] name = "silver" -> 104

(* pygame.font.SysFont(family, size) *)
SysFont(family, size) == [family |-> family, size |-> size]

CustomFont == [family |-> "mono", size |-> 12]

(* ThemeManager.theme: the registry of default style values. *)
ThemeManager_theme ==
    [font  |-> [family |-> "Arial", size |-> 16],
     Label |-> [border_radius |-> 8,
                borderwidth   |-> 1,
                bordercolor   |-> "gray",
                normal  |-> [foreground |-> "black", background |-> "white"],
                hovered |-> [foreground |-> "navy",  background |-> "silver"]]]

(* Keyword arguments are functions from names to values. *)
NoArgs == <<>>
pop(kwargs, name, default) ==
    IF name \in DOMAIN kwargs THEN kwargs[name] ELSE default
get(kwargs, name, default) ==
    IF name \in DOMAIN kwargs THEN kwargs[name] ELSE default
Without(kwargs, names) ==
    [n \in DOMAIN kwargs \ names |-> kwargs[n]]
Opt(name, values) == {NoArgs} \cup {name :> v : v \in values}
Both(A, B) == {f @@ g : f \in A, g \in B}

---------------------------------------------------------------------------
(* Collaborators that the Label calls. *)

(* HoverableMixin.__init__ *)
HoverableMixin_init == hovered = FALSE

(* HoverableMixin._check_hover(event): pointer motion sets the flag to     *)
(* whether the pointer is over the rectangle; other events leave it.       *)
_check_hover(event) ==
    hovered' = CASE event = "motion_inside"  -> TRUE
                 [] event = "motion_outside" -> FALSE
                 [] OTHER -> hovered

(* Widget.__init__(..., kwargs): receives what the Label did not pop. *)
Widget_init(kwargs) == forwarded = DOMAIN kwargs

(* Widget._configure_set_(kwargs): receives what the Label did not pop. *)
Widget_configure_set_(kwargs) == forwarded' = DOMAIN kwargs

(* Widget._configure_get_(attribute): the base answers, not the Label. *)
Widget_configure_get_(attribute) == [by |-> "Widget", name |-> attribute]

(* pygame.draw.rect(surface, color, rect, width, border_radius) on two     *)
(* sample pixels of the rectangle that neither the text nor the image      *)
(* covers: `edge' on the outline, `inner' further inside than any stroke.  *)
(* width = 0 fills the rectangle, width > 0 strokes its outline, and       *)
(* width < 0 draws nothing.                                                *)
pygame_draw_rect(surface, color, width) ==
    IF width = 0 THEN [edge |-> color, inner |-> color]
    ELSE IF width > 0 THEN [surface EXCEPT !.edge = color]
    ELSE surface

RECURSIVE Paint(_, _)
Paint(surface, cs) ==
    IF cs = <<>> THEN surface
    ELSE Paint(IF Head(cs).fn = "draw.rect"
               THEN pygame_draw_rect(surface, Head(cs).color, Head(cs).width)
               ELSE surface,
               Tail(cs))

(* Truth value of `if self._image:' *)
Truthy(image) == image # None

---------------------------------------------------------------------------
(* The Label. *)

(* Label.__init__ with the hover foreground default read from the theme's *)
(* "normal" entry.                                                         *)
__init__HoverFromNormal(a) ==
    /\ _text = pop(a, "text", "Label")
    /\ _wraplength = pop(a, "wraplength", TRUE)
    /\ _underline = pop(a, "underline", FALSE)
    /\ _font = pop(a, "font", SysFont(ThemeManager_theme.font.family,
                                      ThemeManager_theme.font.size))
    /\ _image = pop(a, "image", None)
    /\ _border_radius = pop(a, "border_radius",
                            ThemeManager_theme.Label.border_radius)
    /\ _borderwidth = pop(a, "borderwidth",
                          ThemeManager_theme.Label.borderwidth)
    /\ _foreground = pop(a, "foreground",
                 pygame_Color(ThemeManager_theme.Label.normal.foreground))
    /\ _background = pop(a, "background",
                 pygame_Color(ThemeManager_theme.Label.normal.background))
    /\ _hovercolor = pop(a, "hovercolor",
                 pygame_Color(ThemeManager_theme.Label.normal.foreground))
    /\ _hoverbackground = pop(a, "hoverbackground",
                 pygame_Color(ThemeManager_theme.Label.hovered.background))
    /\ _bordercolor = pop(a, "bordercolor",
                 pygame_Color(ThemeManager_theme.Label.bordercolor))
    /\ _state = pop(a, "state", "normal")
    /\ Widget_init(Without(a, {"text", "wraplength", "underline", "font",
                               "image", "border_radius", "borderwidth",
                               "foreground", "background", "hovercolor",
                               "hoverbackground", "bordercolor", "state"}))
    /\ HoverableMixin_init
    /\ calls = <<>>

(* Label.__init__.  An argument that is not given is absent from `a'.  A  *)
(* given foreground or background is a color value, which pygame.Color     *)
(* copies unchanged; the theme's defaults are names, which it converts.    *)
__init__(a) ==
    /\ _text = pop(a, "text", "Label")
    /\ _wraplength = pop(a, "wraplength", TRUE)
    /\ _underline = pop(a, "underline", FALSE)
    /\ _font = pop(a, "font", SysFont(ThemeManager_theme.font.family,
                                      ThemeManager_theme.font.size))
    /\ _image = pop(a, "image", None)
    /\ _border_radius = pop(a, "border_radius",
                            ThemeManager_theme.Label.border_radius)
    /\ _borderwidth = pop(a, "borderwidth",
                          ThemeManager_theme.Label.borderwidth)
    /\ _foreground = pop(a, "foreground",
                 pygame_Color(ThemeManager_theme.Label.normal.foreground))
    /\ _background = pop(a, "background",
                 pygame_Color(ThemeManager_theme.Label.normal.background))
    /\ _hovercolor = pop(a, "hovercolor",
                 pygame_Color(ThemeManager_theme.Label.hovered.foreground))
    /\ _hoverbackground = pop(a, "hoverbackground",
                 pygame_Color(ThemeManager_theme.Label.hovered.background))
    /\ _bordercolor = pop(a, "bordercolor",
                 pygame_Color(ThemeManager_theme.Label.bordercolor))
    /\ _state = pop(a, "state", "normal")
    /\ Widget_init(Without(a, {"text", "wraplength", "underline", "font",
                               "image", "border_radius", "borderwidth",
                               "foreground", "background", "hovercolor",
                               "hoverbackground", "bordercolor", "state"}))
    /\ HoverableMixin_init
    /\ calls = <<>>

(* Label._set_state_ that never derives "normal". *)
_set_state_Sticky(state) ==
    IF state = None
    THEN _state' = IF hovered THEN "hovered" ELSE _state
    ELSE _state' = state

(* Label._set_state_ that ignores its argument. *)
_set_state_IgnoresArgument(state) ==
    _state' = IF hovered THEN "hovered" ELSE "normal"

(* Label._set_state_ *)
_set_state_(state) ==
    IF state = None
    THEN _state' = IF hovered THEN "hovered" ELSE "normal"
    ELSE _state' = state

(* Label._get_state_foreground_ *)
_get_state_foreground_ ==
    IF _state = "hovered" THEN _hovercolor ELSE _foreground

(* Label._get_state_background_ that reads the hover flag, not the state. *)
_get_state_background_ByFlag ==
    IF hovered THEN _hoverbackground ELSE _background

(* Label._get_state_background_ *)
_get_state_background_ ==
    IF _state = "hovered" THEN _hoverbackground ELSE _background

(* Label._configure_set_ that does not store the text. *)
_configure_set_DropsText(kwargs) ==
    /\ _text' = _text
    /\ _font' = pop(kwargs, "font", _font)
    /\ _image' = pop(kwargs, "image", _image)
    /\ _state' = pop(kwargs, "state", _state)
    /\ _underline' = pop(kwargs, "underline", _underline)
    /\ _hovercolor' = pop(kwargs, "hovercolor", _hovercolor)
    /\ _hoverbackground' = pop(kwargs, "hoverbackground", _hoverbackground)
    /\ _bordercolor' = pop(kwargs, "bordercolor", _bordercolor)
    /\ _borderwidth' = get(kwargs, "borderwidth", _borderwidth)
    /\ _border_radius' = get(kwargs, "border_radius", _border_radius)
    /\ Widget_configure_set_(
           Without(kwargs, {"text", "font", "image", "state", "underline",
                            "hovercolor", "hoverbackground", "bordercolor"}))
    /\ calls' = <<>>
    /\ UNCHANGED <<_wraplength, _foreground, _background, hovered>>

(* Label._configure_set_ *)
_configure_set_(kwargs) ==
    /\ _text' = pop(kwargs, "text", _text)
    /\ _font' = pop(kwargs, "font", _font)
    /\ _image' = pop(kwargs, "image", _image)
    /\ _state' = pop(kwargs, "state", _state)
    /\ _underline' = pop(kwargs, "underline", _underline)
    /\ _hovercolor' = pop(kwargs, "hovercolor", _hovercolor)
    /\ _hoverbackground' = pop(kwargs, "hoverbackground", _hoverbackground)
    /\ _bordercolor' = pop(kwargs, "bordercolor", _bordercolor)
    /\ _borderwidth' = get(kwargs, "borderwidth", _borderwidth)
    /\ _border_radius' = get(kwargs, "border_radius", _border_radius)
    /\ Widget_configure_set_(
           Without(kwargs, {"text", "font", "image", "state", "underline",
                            "hovercolor", "hoverbackground", "bordercolor"}))
    /\ calls' = <<>>
    /\ UNCHANGED <<_wraplength, _foreground, _background, hovered>>

(* Label._configure_get_ *)
_configure_get_(attribute) ==
    CASE attribute = "text"            -> [by |-> "Label", value |-> _text]
      [] attribute = "font"            -> [by |-> "Label", value |-> _font]
      [] attribute = "image"           -> [by |-> "Label", value |-> _image]
      [] attribute = "state"           -> [by |-> "Label", value |-> _state]
      [] attribute = "underline"       -> [by |-> "Label", value |-> _underline]
      [] attribute = "hovercolor"      -> [by |-> "Label", value |-> _hovercolor]
      [] attribute = "hoverbackground" ->
                              [by |-> "Label", value |-> _hoverbackground]
      [] attribute = "bordercolor"     -> [by |-> "Label", value |-> _bordercolor]
      [] attribute = "border_radius"   ->
                              [by |-> "Label", value |-> _border_radius]
      [] OTHER -> Widget_configure_get_(attribute)

(* Label.get_text: configure(config="text") *)
get_text == _configure_get_("text").value

(* Label._perform_draw_ that blits the image before the text. *)
_perform_draw_ImageFirst ==
    LET foreground == _get_state_foreground_
        background == _get_state_background_
    IN  /\ calls' =
             << [fn |-> "draw.rect", color |-> background, width |-> 0,
                 border_radius |-> _border_radius],
                [fn |-> "draw.rect", color |-> _bordercolor,
                 width |-> _borderwidth, border_radius |-> _border_radius] >>
             \o (IF Truthy(_image)
                 THEN << [fn |-> "blit", source |-> _image, at |-> "left+8"] >>
                 ELSE << >>)
             \o << [fn |-> "font.render", text |-> _text, antialias |-> TRUE,
                    color |-> foreground],
                   [fn |-> "blit", source |-> "btn_text", at |-> "center"] >>
        /\ forwarded' = {}
        /\ UNCHANGED <<fields, hovered>>

(* Label._perform_draw_ *)
_perform_draw_ ==
    LET foreground == _get_state_foreground_
        background == _get_state_background_
    IN  /\ calls' =
             << [fn |-> "draw.rect", color |-> background, width |-> 0,
                 border_radius |-> _border_radius],
                [fn |-> "draw.rect", color |-> _bordercolor,
                 width |-> _borderwidth, border_radius |-> _border_radius],
                [fn |-> "font.render", text |-> _text, antialias |-> TRUE,
                 color |-> foreground],
                [fn |-> "blit", source |-> "btn_text", at |-> "center"] >>
             \o (IF Truthy(_image)
                 THEN << [fn |-> "blit", source |-> _image, at |-> "left+8"] >>
                 ELSE << >>)
        /\ forwarded' = {}
        /\ UNCHANGED <<fields, hovered>>

(* Label._handle_event_ that also recomputes the state. *)
_handle_event_Refreshes(event) ==
    /\ _check_hover(event)
    /\ _state' = IF hovered' THEN "hovered" ELSE "normal"
    /\ calls' = <<>>
    /\ forwarded' = {}
    /\ UNCHANGED style

(* Label._handle_event_ *)
_handle_event_(event) ==
    /\ _check_hover(event)
    /\ calls' = <<>>
    /\ forwarded' = {}
    /\ UNCHANGED fields

(* Label._perform_update_ that does not recompute the state. *)
_perform_update_Skips(delta) ==
    /\ calls' = <<>>
    /\ forwarded' = {}
    /\ UNCHANGED <<fields, hovered>>

(* Label._perform_update_ *)
_perform_update_(delta) ==
    /\ _set_state_(None)
    /\ calls' = <<>>
    /\ forwarded' = {}
    /\ UNCHANGED <<style, hovered>>

---------------------------------------------------------------------------
(* The operations a caller performs on the Label.  Each records itself in  *)
(* the history variables.                                                  *)

Record(name, a) ==
    /\ op' = name
    /\ args' = a
    /\ hov0' = hovered
    /\ pre' = _state

(* Label(...): the Label after construction *)
Label(a) ==
    /\ __init__(a)
    /\ op = "__init__"
    /\ args = a
    /\ hov0 = FALSE
    /\ pre = pop(a, "state", "normal")
    /\ forced = pop(a, "state", NoForce)
    /\ written = pop(a, "text", "Label")
    /\ writer = "__init__"

(* handle(event) *)
handle(event) ==
    /\ _handle_event_(event)
    /\ Record("handle", [event |-> event])
    /\ UNCHANGED <<forced, written, writer>>

(* update(delta) *)
update(delta) ==
    /\ _perform_update_(delta)
    /\ Record("update", [delta |-> delta])
    /\ forced' = NoForce
    /\ UNCHANGED <<written, writer>>

(* draw() *)
draw ==
    /\ _perform_draw_
    /\ Record("draw", NoArgs)
    /\ UNCHANGED <<forced, written, writer>>

(* set_text(new_text): configure(config=None, text=new_text) *)
set_text(new_text) ==
    /\ _configure_set_("text" :> new_text)
    /\ Record("set_text", [new_text |-> new_text])
    /\ written' = new_text
    /\ writer' = "set_text"
    /\ UNCHANGED forced

(* configure(config=None, kwargs) *)
configure_set(kwargs) ==
    /\ _configure_set_(kwargs)
    /\ Record("configure_set", kwargs)
    /\ forced' = pop(kwargs, "state", forced)
    /\ written' = pop(kwargs, "text", written)
    /\ writer' = IF "text" \in DOMAIN kwargs THEN "configure" ELSE writer

(* configure(config=attribute) *)
configure_get(attribute) ==
    /\ calls' = <<>>
    /\ forwarded' = {}
    /\ Record("configure_get", [config |-> attribute])
    /\ UNCHANGED <<fields, hovered, forced, written, writer>>

(* _set_state_(state) called with an explicit state *)
set_state(state) ==
    /\ _set_state_(state)
    /\ calls' = <<>>
    /\ forwarded' = {}
    /\ Record("_set_state_", [state |-> state])
    /\ forced' = state
    /\ UNCHANGED <<style, hovered, written, writer>>

---------------------------------------------------------------------------
(* Specification Spec: text, state, image and flags vary. *)

CtorArgs ==
    Both(Opt("text", {"", "Hi"}),
    Both(Opt("state", States),
    Both(Opt("image", {"icon"}),
    Both(Opt("wraplength", {FALSE}), Opt("underline", {TRUE})))))

Kwargs ==
    {NoArgs}
    \cup [text : Texts] \cup [state : States] \cup [image : Images]
    \cup [underline : BOOLEAN] \cup [wraplength : BOOLEAN]
    \cup [borderwidth : BorderWidths]
    \cup [text : Texts, state : States]
    \cup [cursor : {"hand"}]

Attributes == {"text", "font", "image", "state", "underline", "wraplength",
               "hovercolor", "hoverbackground", "bordercolor", "borderwidth",
               "border_radius"}

Init == \E a \in CtorArgs : Label(a)

Next ==
    \/ \E event \in Events : handle(event)
    \/ \E delta \in Deltas : update(delta)
    \/ draw
    \/ \E new_text \in Texts : set_text(new_text)
    \/ \E kwargs \in Kwargs : configure_set(kwargs)
    \/ \E attribute \in Attributes : configure_get(attribute)
    \/ \E state \in States : set_state(state)

Spec == Init /\ [][Next]_vars

---------------------------------------------------------------------------
(* Specification SpecStyle: the style overrides of the constructor vary,  *)
(* and the Label then runs in the host's frame loop.                       *)

CtorArgsColors ==
    Both(Opt("foreground", Colors),
    Both(Opt("background", Colors),
    Both(Opt("hovercolor", Colors),
    Both(Opt("hoverbackground", Colors),
    Both(Opt("state", States), Opt("image", {"icon"}))))))

CtorArgsBorder ==
    Both(Opt("bordercolor", Colors),
    Both(Opt("background", Colors),
    Both(Opt("borderwidth", BorderWidths),
    Both(Opt("border_radius", Radii),
    Both(Opt("font", {CustomFont}), Opt("state", {"hovered"}))))))

KwargsStyle ==
    [hovercolor : Colors] \cup [borderwidth : BorderWidths]

InitStyle == \E a \in CtorArgsColors \cup CtorArgsBorder : Label(a)

NextStyle ==
    \/ \E event \in Events : handle(event)
    \/ \E delta \in Deltas : update(delta)
    \/ draw
    \/ \E kwargs \in KwargsStyle : configure_set(kwargs)

SpecStyle == InitStyle /\ [][NextStyle]_vars

---------------------------------------------------------------------------
(* Properties. *)

(* The state that the hover flag h selects. *)
HoverState(h) == IF h THEN "hovered" ELSE "normal"

(* The background color a draw should use in the current state. *)
StateBackground ==
    CASE _state = "hovered" -> _hoverbackground
      [] OTHER -> _background

(* The Label's own field behind a configure name. *)
Field(name) ==
    CASE name = "text"            -> _text
      [] name = "font"            -> _font
      [] name = "image"           -> _image
      [] name = "border_radius"   -> _border_radius
      [] name = "borderwidth"     -> _borderwidth
      [] name = "hovercolor"      -> _hovercolor
      [] name = "hoverbackground" -> _hoverbackground
      [] name = "bordercolor"     -> _bordercolor
      [] name = "state"           -> _state
      [] name = "underline"       -> _underline
      [] name = "wraplength"      -> _wraplength

BridgeNames == {"text", "font", "image", "border_radius", "borderwidth",
                "hovercolor", "hoverbackground", "bordercolor", "state",
                "underline", "wraplength"}

BlankSurface == [edge |-> Unpainted, inner |-> Unpainted]

(* C1: right after update(), whatever the state was before and whatever    *)
(* delta was passed, the state is "hovered" if the hover flag was true     *)
(* when update() was invoked and "normal" if it was false.                 *)
C1_UpdateDerivesStateFromHover ==
    op = "update" =>
        /\ (_state = "hovered") <=> hov0
        /\ (_state = "normal") <=> ~hov0

(* C1 witness: an update with the flag false turned a hovered Label back   *)
(* to normal.                                                              *)
C1_Witness ==
    op = "update" /\ pre = "hovered" /\ ~hov0 /\ _state = "normal"
        /\ args.delta = MaxDelta

(* C2: get_text() returns the text most recently written (by              *)
(* set_text or a configure-set naming text), or the constructor's text     *)
(* when nothing was written since; handle, update and draw do not change   *)
(* it.                                                                     *)
C2_GetTextReturnsLastWritten == get_text = written

(* C2 witness: a draw after set_text("") was the last text write. *)
C2_Witness ==
    op = "draw" /\ writer = "set_text" /\ written = "" /\ hovered

(* C3: a draw fills with hoverBackground and renders the text with         *)
(* hoverForeground when the state is "hovered", and uses background and    *)
(* foreground for every other state, whatever the hover flag is.           *)
C3_DrawColorsFollowState ==
    op = "draw" =>
        /\ _state = "hovered" =>
              /\ calls[1].color = _hoverbackground
              /\ calls[3].color = _hovercolor
        /\ _state # "hovered" =>
              /\ calls[1].color = _background
              /\ calls[3].color = _foreground

(* C3 witness: a draw after handle set the hover flag and before the next  *)
(* update, with normal and hover colors that differ.                       *)
C3_Witness ==
    /\ op = "draw" /\ hovered /\ _state = "normal"
    /\ _background # _hoverbackground
    /\ _foreground # _hovercolor

(* C4: every draw issues, in this order, the background fill, the border   *)
(* stroke (also when borderWidth is 0), the text render and its blit, and  *)
(* then the image blit, which is issued exactly when an image is set.      *)
C4_DrawOrder ==
    op = "draw" =>
        /\ Len(calls) = IF _image = None THEN 4 ELSE 5
        /\ calls[1].fn = "draw.rect" /\ calls[1].width = 0
        /\ calls[2].fn = "draw.rect"
        /\ calls[2].color = _bordercolor /\ calls[2].width = _borderwidth
        /\ calls[3].fn = "font.render" /\ calls[3].text = _text
        /\ calls[4].fn = "blit" /\ calls[4].source = "btn_text"
        /\ _image # None =>
              calls[5].fn = "blit" /\ calls[5].source = _image

(* C4 witness: a draw of a Label with an image and borderWidth 0. *)
C4_Witness ==
    op = "draw" /\ _image = "icon" /\ _borderwidth = 0 /\ Len(calls) = 5

(* C5: right after construction every style value is the given override,   *)
(* or, when none is given, the theme default for "Label" (border radius,   *)
(* width and color from the widget entry, foreground and background from  *)
(* its "normal" entry, hover colors from its "hovered" entry), and the     *)
(* state is the given override or "normal".                                *)
C5_ConstructorDefaults ==
    op = "__init__" =>
        LET theme == ThemeManager_theme.Label
            Given(name) == name \in DOMAIN args
        IN  /\ _border_radius = IF Given("border_radius")
                                THEN args.border_radius
                                ELSE theme.border_radius
            /\ _borderwidth = IF Given("borderwidth")
                              THEN args.borderwidth ELSE theme.borderwidth
            /\ _bordercolor = IF Given("bordercolor") THEN args.bordercolor
                              ELSE pygame_Color(theme.bordercolor)
            /\ _foreground = IF Given("foreground") THEN args.foreground
                             ELSE pygame_Color(theme.normal.foreground)
            /\ _background = IF Given("background") THEN args.background
                             ELSE pygame_Color(theme.normal.background)
            /\ _hovercolor = IF Given("hovercolor") THEN args.hovercolor
                             ELSE pygame_Color(theme.hovered.foreground)
            /\ _hoverbackground = IF Given("hoverbackground")
                                  THEN args.hoverbackground
                                  ELSE pygame_Color(theme.hovered.background)
            /\ _state = IF Given("state") THEN args.state ELSE "normal"

(* C5 witness: a Label constructed with some style values overridden and   *)
(* others left to the theme.                                               *)
C5_Witness ==
    /\ op = "__init__"
    /\ "hovercolor" \in DOMAIN args /\ "background" \in DOMAIN args
    /\ "foreground" \notin DOMAIN args
    /\ "hoverbackground" \notin DOMAIN args
    /\ "state" \notin DOMAIN args

(* C6 as stated: handle, draw, set_text and configure-set never change     *)
(* the state from normal to hovered or from hovered to normal.             *)
C6_StateChangesOnlyInUpdate ==
    [][op' \in {"handle", "draw", "set_text", "configure_set"} =>
          /\ ~(_state = "normal" /\ _state' = "hovered")
          /\ ~(_state = "hovered" /\ _state' = "normal")]_vars

(* C6 amended: the state changes only in update, in a configure-set whose  *)
(* mapping names "state", or in _set_state_ called with an explicit state; *)
(* handle, draw, set_text and a configure-set that does not name "state"   *)
(* leave it as it is.                                                      *)
C6_StateChangesOnlyWhenDerivedOrForced ==
    [][_state' # _state =>
          \/ op' = "update"
          \/ op' = "_set_state_"
          \/ op' = "configure_set" /\ "state" \in DOMAIN args']_vars

(* C6 witness: handle has set the hover flag of a normal Label, and the    *)
(* state is still normal.                                                  *)
C6_Witness ==
    op = "handle" /\ ~hov0 /\ hovered /\ pre = "normal" /\ _state = "normal"

(* C7 as stated: the state is always "normal" or "hovered". *)
C7_StateIsNormalOrHovered == _state \in {"normal", "hovered"}

(* C7 amended: the state is "normal" or "hovered", or else it is the value *)
(* that the constructor's state override, a configure-set naming state or  *)
(* _set_state_ forced since the last update; after an update nothing is    *)
(* forced, so the state is then "normal" or "hovered".                     *)
C7_StateIsNormalHoveredOrForced ==
    \/ _state \in {"normal", "hovered"}
    \/ forced # NoForce /\ _state = forced

(* C7 witness: an update has replaced a state that was neither normal nor  *)
(* hovered.                                                                *)
C7_Witness ==
    op = "update" /\ pre = "disabled" /\ _state \in {"normal", "hovered"}

(* C8 as stated: a configure-set of any of the names text, font, image,    *)
(* border radius, border width, hover foreground, hover background,        *)
(* border color, state, underline and wrap stores the value in the Label's *)
(* own field, and a configure-get of that name is answered by the Label    *)
(* with that value.                                                        *)
C8_BridgeCoversEveryField ==
    op = "configure_set" =>
        \A name \in DOMAIN args \cap BridgeNames :
            /\ Field(name) = args[name]
            /\ _configure_get_(name).by = "Label"
            /\ _configure_get_(name).value = args[name]

(* C9 as stated: after a draw with borderWidth 0, the pixels of the        *)
(* rectangle that text and image do not cover show the resolved            *)
(* background color.                                                       *)
C9_ZeroWidthBorderIsInvisible ==
    op = "draw" /\ _borderwidth = 0 =>
        /\ Paint(BlankSurface, calls).edge = StateBackground
        /\ Paint(BlankSurface, calls).inner = StateBackground

(* C10: a forced state is stored as given, whatever the hover flag is,     *)
(* survives handle and draw, and is replaced at the next update by the     *)
(* state the hover flag selects.                                           *)
C10_ForcedStateLastsUntilUpdate ==
    [][/\ op' = "_set_state_" => _state' = args'.state
       /\ op' = "configure_set" /\ "state" \in DOMAIN args' =>
              _state' = args'.state
       /\ forced # NoForce /\ op' \in {"handle", "draw"} =>
              _state' = forced /\ forced' = forced
       /\ forced # NoForce /\ op' = "update" =>
              _state' = HoverState(hovered) /\ forced' = NoForce]_vars

(* C10 witness: a state forced to normal while the pointer hovers is still *)
(* normal after a draw.                                                    *)
C10_Witness ==
    op = "draw" /\ forced = "normal" /\ hovered /\ _state = "normal"

=============================================================================
